---- MODULE Spec2Model ----
(***************************************************************************)
(* State-machine model of the RDMOTORS support bot (src/main.py): the      *)
(* anti-spam window, the MySQL tables (messages, car_status, bot_users),   *)
(* the command handlers and the text-message router.                       *)
(*                                                                         *)
(* Text is modelled as Python models it: a string is a sequence of Unicode *)
(* code points, and upper(), lower(), isalnum(), strip(), split() and the  *)
(* "in" substring test are computed character by character.  The string    *)
(* literals of src/main.py are stored double-encoded in the file; the      *)
(* code-point tuples below are the literals exactly as the file holds      *)
(* them.                                                                   *)
(*                                                                         *)
(* Handlers run one at a time: main() builds the Application with its      *)
(* default settings, under which an update is handled to completion before *)
(* the next one is taken.  Every handler is therefore one action.  The     *)
(* specifications SpecTasks and SpecTasksRate drop that assumption and     *)
(* let handler tasks interleave at their awaits.  The earlier router of    *)
(* src/app.py is modelled beside main.py's, over its own archive.          *)
(***************************************************************************)
EXTENDS Integers, Sequences, FiniteSets, TLC

VARIABLES
    now,                \* the wall clock read by datetime.now(), in seconds
    user_message_count, \* main.py:102, identity -> timestamps of admitted events
    messages,           \* table "messages": rows in id order
    car_status,         \* table "car_status": rows in insertion order
    bot_users,          \* table "bot_users": rows in insertion order
    ev,                 \* the update handled last: handler, sender, text, what befell it
    out,                \* the transport calls the last handler made, in order
    admitted,           \* history: identity -> the times at which its messages passed is_spam
    sheet,              \* app.py: the rows of the "ClientMessages" sheet, in order
    sched               \* the updates in flight: those fetched and not yet handled,
                        \* the handler tasks suspended at an await, and their history

vars == <<now, user_message_count, messages, car_status, bot_users, ev, out, admitted,
          sheet, sched>>

----------------------------------------------------------------------------
(* Program constants *)

MESSAGE_LIMIT == 7

\* timedelta(minutes=1), in seconds
TIME_LIMIT == 60

\* the operator identity: int(os.getenv("MANAGER_ID")), any non-zero integer
MANAGER_ID == 1

\* len(text) == 17 in handle_user_message
VIN_LEN == 17

\* get_last_messages(..., limit=10)
MESSAGES_LIMIT == 10

----------------------------------------------------------------------------
(* Bounds of the model *)

\* the clock advances in steps of TickStep seconds up to MaxTime
TickStep == 20
MaxTime == 100

\* rows the messages table may hold before the model stops appending
MaxMessages == 2

\* the most parts, separated by "|", of a status text the operator stores
MaxParts == 3

\* the updates fetched and waiting for a handler, the handler tasks suspended
\* at an await, and the updates that arrive in all, when handlers interleave
MaxInbox == 2
MaxTasks == 2
MaxArrivals == 4

\* the updates that arrive in all when the anti-spam window is filled
RateArrivals == MESSAGE_LIMIT + 2

\* a customer identity (any integer other than MANAGER_ID)
Customer == MANAGER_ID + 1
Customer2 == MANAGER_ID + 2

----------------------------------------------------------------------------
(* Python str operations on sequences of code points *)

RECURSIVE Flatten(_)
Flatten(ss) == IF ss = <<>> THEN <<>> ELSE Head(ss) \o Flatten(Tail(ss))

\* str.lower() of one character (ASCII, Latin-1, the Greek and Cyrillic
\* letters the literals use; every other code point of the model is caseless)
CharLower(c) ==
    IF (c >= 65 /\ c <= 90) \/ (c >= 192 /\ c <= 222 /\ c # 215)
       \/ c = 937 \/ c = 928 \/ (c >= 1040 /\ c <= 1071)
    THEN c + 32
    ELSE IF c >= 1024 /\ c <= 1039 THEN c + 80 ELSE c

\* str.upper() of one character: a sequence, as "ß" becomes "SS"
CharUpper(c) ==
    IF (c >= 97 /\ c <= 122) \/ (c >= 224 /\ c <= 254 /\ c # 247)
       \/ c = 969 \/ c = 960 \/ (c >= 1072 /\ c <= 1103)
    THEN <<c - 32>>
    ELSE IF c >= 1104 /\ c <= 1119 THEN <<c - 80>>
    ELSE IF c = 181 THEN <<924>>
    ELSE IF c = 223 THEN <<83, 83>>
    ELSE IF c = 255 THEN <<376>>
    ELSE <<c>>

\* str.upper(), leaving every character as it is
MutUpperIdentity(s) == s

Lower(s) == [i \in 1..Len(s) |-> CharLower(s[i])]

Upper(s) == Flatten([i \in 1..Len(s) |-> CharUpper(s[i])])

\* one character's part in str.isalnum()
CharIsAlnum(c) ==
    \/ c >= 48 /\ c <= 57
    \/ c >= 65 /\ c <= 90
    \/ c >= 97 /\ c <= 122
    \/ c \in {170, 178, 179, 181, 185, 186, 188, 189, 190}
    \/ c >= 192 /\ c <= 255 /\ c # 215 /\ c # 247
    \/ c \in {928, 937, 960, 969}
    \/ c >= 1024 /\ c <= 1119

\* str.isalnum(): non-empty and every character alphanumeric
IsAlnum(s) == Len(s) > 0 /\ \A i \in 1..Len(s) : CharIsAlnum(s[i])

\* the characters str.strip() and str.split() treat as whitespace
CharIsSpace(c) == (c >= 9 /\ c <= 13) \/ (c >= 28 /\ c <= 32) \/ c \in {133, 160}

RECURSIVE LStrip(_)
LStrip(s) == IF s # <<>> /\ CharIsSpace(Head(s)) THEN LStrip(Tail(s)) ELSE s

RECURSIVE RStrip(_)
RStrip(s) ==
    IF s # <<>> /\ CharIsSpace(s[Len(s)]) THEN RStrip(SubSeq(s, 1, Len(s) - 1)) ELSE s

\* str.strip()
Strip(s) == RStrip(LStrip(s))

\* index of the first whitespace character of s at or after i, or Len(s) + 1
RECURSIVE FirstSpace(_, _)
FirstSpace(s, i) ==
    IF i > Len(s) \/ CharIsSpace(s[i]) THEN i ELSE FirstSpace(s, i + 1)

\* str.split(maxsplit=n) with no separator: runs of whitespace separate, leading
\* whitespace is dropped, and after n splits the rest is kept as it is, its
\* trailing whitespace included
RECURSIVE SplitWs(_, _)
SplitWs(s, n) ==
    LET t == LStrip(s) IN
    IF t = <<>> THEN <<>>
    ELSE IF n = 0 THEN <<t>>
    ELSE LET k == FirstSpace(t, 1) IN
         <<SubSeq(t, 1, k - 1)>> \o SplitWs(SubSeq(t, k, Len(t)), n - 1)

\* index of the first c in s at or after i, or Len(s) + 1
RECURSIVE FirstChar(_, _, _)
FirstChar(s, c, i) ==
    IF i > Len(s) \/ s[i] = c THEN i ELSE FirstChar(s, c, i + 1)

\* str.split(c) with a one-character separator: every occurrence splits, empty
\* parts are kept
RECURSIVE SplitOn(_, _)
SplitOn(s, c) ==
    LET k == FirstChar(s, c, 1) IN
    IF k > Len(s) THEN <<s>>
    ELSE <<SubSeq(s, 1, k - 1)>> \o SplitOn(SubSeq(s, k + 1, Len(s)), c)

\* sub in s
Contains(sub, s) ==
    \E i \in 0..(Len(s) - Len(sub)) : SubSeq(s, i + 1, i + Len(sub)) = sub

\* x in xs, for a list
InList(x, xs) == \E i \in 1..Len(xs) : xs[i] = x

\* sep.join(parts)
RECURSIVE Join(_, _)
Join(parts, sep) ==
    IF parts = <<>> THEN <<>>
    ELSE IF Len(parts) = 1 THEN parts[1]
    ELSE parts[1] \o sep \o Join(Tail(parts), sep)

\* whether int(s) returns: an optional sign and one or more ASCII digits (the
\* other spellings int() accepts, underscores and non-ASCII digits, are not
\* drawn by the model)
IsIntLiteral(s) ==
    LET d == IF s # <<>> /\ s[1] \in {43, 45} THEN Tail(s) ELSE s IN
    d # <<>> /\ \A i \in 1..Len(d) : d[i] >= 48 /\ d[i] <= 57

RECURSIVE DigitsValue(_)
DigitsValue(d) ==
    IF d = <<>> THEN 0 ELSE 10 * DigitsValue(SubSeq(d, 1, Len(d) - 1)) + (d[Len(d)] - 48)

\* int(s), for an s that IsIntLiteral
IntValue(s) ==
    IF s[1] = 45 THEN 0 - DigitsValue(Tail(s))
    ELSE IF s[1] = 43 THEN DigitsValue(Tail(s))
    ELSE DigitsValue(s)

----------------------------------------------------------------------------
(* String literals of src/main.py, as the file holds them *)

\* the menu captions, keyboard_texts of handle_user_message
CAP_WANT_CAR ==
    <<63743, 252, 236, 8226, 32, 8211, 8226, 8211, 230, 8212, 225, 8212, 201, 32,
      8211, 8734, 8211, 8804, 8212, 199, 8211, 230, 32, 8211, 8721, 8212, 241, 32,
      8211, 176, 8211, 174, 8211, 234>>
CAP_FAQ == <<8218, 249, 236, 70, 65, 81>>
CAP_CONTACT ==
    <<63743, 252, 236, 251, 32, 8211, 246, 8211, 230, 8211, 937, 8212, 199, 8211,
      8734, 8211, 8747, 8212, 199>>
CAP_IN_STOCK ==
    <<63743, 252, 236, 227, 32, 8211, 237, 32, 8211, 937, 8211, 8734, 8212, 232,
      8211, 8804, 8211, 937, 8211, 230, 8212, 197, 8212, 199, 8212, 241>>
CAP_WHERE ==
    <<63743, 252, 246, 243, 32, 8211, 238, 8211, 181, 32, 8211, 8734, 8211, 8804,
      8212, 199, 8211, 230, 63>>

keyboard_texts == <<CAP_WANT_CAR, CAP_FAQ, CAP_CONTACT, CAP_IN_STOCK, CAP_WHERE>>

\* the keywords the menu branch looks for
KW_WHERE == <<8211, 165, 8211, 181, 32, 8211, 8734, 8211, 8804, 8212, 199, 8211, 230>>
KW_WANT_CAR ==
    <<8212, 214, 8211, 230, 8212, 225, 8212, 201, 32, 8211, 8734, 8211, 8804, 8212,
      199, 8211, 230, 32, 8211, 8721, 8212, 241, 32, 8212, 197, 8212, 224, 8211, 8734>>
KW_CONTACT ==
    <<8211, 8747, 8211, 230, 8211, 937, 8212, 199, 8211, 8734, 8211, 8747, 8212, 199>>
KW_PHONE ==
    <<8212, 199, 8211, 181, 8211, 170, 8211, 181, 8212, 209, 8211, 230, 8211, 937>>
KW_IN_STOCK ==
    <<8211, 8804, 32, 8211, 937, 8211, 8734, 8212, 232, 8211, 8804, 8211, 937, 8211,
      230, 8212, 197, 8212, 199, 8212, 241>>
KW_WHICH_CARS ==
    <<8212, 232, 8211, 8747, 8212, 241, 32, 8211, 8734, 8211, 8804, 8212, 199, 8211, 230>>
KW_CLIPBOARD == <<63743, 252, 236, 227>>
KW_FAQ == <<102, 97, 113>>
KW_QUESTION ==
    <<8211, 248, 8211, 8719, 8212, 199, 8211, 8734, 8211, 937, 8211, 937, 8212, 232>>
KW_QMARK == <<8218, 249, 236>>

\* the marker shown for a missing location
UNKNOWN_MARK ==
    <<8211, 249, 8211, 181, 8211, 8804, 8212, 241, 8211, 165, 8211, 230, 8211, 186,
      8211, 230>>

\* "|"
PIPE == 124

\* Python's None
None == "None"

\* a or b
Or(a, b) == IF a = None \/ a = "" THEN b ELSE a

----------------------------------------------------------------------------
(* Anti-spam *)

\* Trim, keeping a timestamp exactly TIME_LIMIT old
MutTrimKeepsBoundary(ts, t) == SelectSeq(ts, LAMBDA x : t - x <= TIME_LIMIT)

\* [t for t in user_message_count[user_id] if now - t < TIME_LIMIT]
Trim(ts, t) == SelectSeq(ts, LAMBDA x : t - x < TIME_LIMIT)

\* is_spam, denying only above MESSAGE_LIMIT
MutIsSpamOffByOne(umc, user_id, t) ==
    LET kept == Trim(umc[user_id], t) IN
    IF Len(kept) > MESSAGE_LIMIT
    THEN [ret |-> TRUE, user_message_count |-> [umc EXCEPT ![user_id] = kept]]
    ELSE [ret |-> FALSE, user_message_count |-> [umc EXCEPT ![user_id] = Append(kept, t)]]

\* is_spam, recording the time of a denied call as well
MutIsSpamRecordsDenied(umc, user_id, t) ==
    LET kept == Trim(umc[user_id], t) IN
    [ret |-> Len(kept) >= MESSAGE_LIMIT,
     user_message_count |-> [umc EXCEPT ![user_id] = Append(kept, t)]]

\* is_spam(user_id) at time t: the value returned and the dictionary it leaves
is_spam(umc, user_id, t) ==
    LET kept == Trim(umc[user_id], t) IN
    IF Len(kept) >= MESSAGE_LIMIT
    THEN [ret |-> TRUE, user_message_count |-> [umc EXCEPT ![user_id] = kept]]
    ELSE [ret |-> FALSE, user_message_count |-> [umc EXCEPT ![user_id] = Append(kept, t)]]

----------------------------------------------------------------------------
(* Database functions.  ok tells whether the session's query and commit      *)
(* succeed; a failure raises inside the try block and leaves the table as    *)
(* it was.                                                                   *)

\* index of the first row of a table that satisfies Test, or 0:
\* db.query(...).filter(...).first()
RECURSIVE FirstRow(_, _, _)
FirstRow(rows, Test(_), i) ==
    IF i > Len(rows) THEN 0
    ELSE IF Test(rows[i]) THEN i
    ELSE FirstRow(rows, Test, i + 1)

\* save_message_to_db, without the commit
MutSaveMessageNeverCommits(rows, user_id, username, message_text, t, ok) == rows

\* save_message_to_db, the row staying in the table when the commit fails
MutSaveMessageNoRollback(rows, user_id, username, message_text, t, ok) ==
    Append(rows, [user_id |-> user_id, username |-> username,
                  message |-> message_text, timestamp |-> t])

\* save_message_to_db(user_id, username, message_text)
save_message_to_db(rows, user_id, username, message_text, t, ok) ==
    IF ok
    THEN Append(rows, [user_id |-> user_id, username |-> username,
                       message |-> message_text, timestamp |-> t])
    ELSE rows

\* get_car_status_by_vin(vin): the tuple returned, or None
get_car_status_by_vin(rows, vin, ok) ==
    LET i == FirstRow(rows, LAMBDA r : r.vin = vin, 1) IN
    IF ok /\ i # 0
    THEN [found |-> TRUE, status |-> rows[i].status,
          container_number |-> rows[i].container_number,
          updated_at |-> rows[i].updated_at]
    ELSE [found |-> FALSE, status |-> <<>>, container_number |-> <<>>, updated_at |-> 0]

\* save_bot_user(user_id, username, first_name, is_manager=0); the column
\* created_at is filled by the schema and never read, and is left out
save_bot_user(rows, user_id, username, first_name, ok) ==
    LET i == FirstRow(rows, LAMBDA r : r.user_id = user_id, 1) IN
    IF ~ok THEN rows
    ELSE IF i # 0
    THEN [rows EXCEPT ![i].username = username, ![i].first_name = first_name]
    ELSE Append(rows, [user_id |-> user_id, username |-> username,
                       first_name |-> first_name, is_manager |-> 0])

\* upsert_car_status, without the query for an existing row
MutUpsertAlwaysAdds(rows, vin, container, status, t, ok) ==
    IF ok
    THEN Append(rows, [vin |-> vin, status |-> status,
                       container_number |-> container, updated_at |-> t])
    ELSE rows

\* the read-modify-write of update_vin_status: the car_status table after it
upsert_car_status(rows, vin, container, status, t, ok) ==
    LET i == FirstRow(rows, LAMBDA r : r.vin = vin, 1) IN
    IF ~ok THEN rows
    ELSE IF i # 0
    THEN [rows EXCEPT ![i].status = status, ![i].container_number = container,
                      ![i].updated_at = t]
    ELSE Append(rows, [vin |-> vin, status |-> status,
                       container_number |-> container, updated_at |-> t])

----------------------------------------------------------------------------
(* Transport calls.  A call is recorded with the template it sends (tag),   *)
(* the values put into the template (args), and whether the transport       *)
(* accepted it (ok).  A call that is not accepted raises; ok is drawn for    *)
(* the calls made inside a try block, whose handler goes on, and is TRUE     *)
(* for the others, which are the last thing their handler does.             *)

ReplyText(chat_id, tag, args, ok) ==
    [call |-> "reply_text", chat_id |-> chat_id, tag |-> tag, args |-> args, ok |-> ok]

SendMessage(chat_id, tag, args, ok) ==
    [call |-> "send_message", chat_id |-> chat_id, tag |-> tag, args |-> args, ok |-> ok]

ReplyPhoto(chat_id, tag, args, ok) ==
    [call |-> "reply_photo", chat_id |-> chat_id, tag |-> tag, args |-> args, ok |-> ok]

\* the update handled last
Event(handler, uid, text, denied, read_failed, write_failed) ==
    [handler |-> handler, uid |-> uid, text |-> text, denied |-> denied,
     read_failed |-> read_failed, write_failed |-> write_failed]

\* updated.strftime('%d.%m.%Y %H:%M'): the time to the minute
FormatMinute(t) == t \div 60

----------------------------------------------------------------------------
(* handle_user_message *)

\* IsVinShape, taking only identifiers typed in upper case
MutIsVinShapeUpperOnly(text) == Len(text) = VIN_LEN /\ IsAlnum(text) /\ Upper(text) = text

\* len(text) == 17 and text.isalnum()
IsVinShape(text) == Len(text) = VIN_LEN /\ IsAlnum(text)

\* parts[0].strip() if len(parts) > 0 and parts[0].strip() else UNKNOWN_MARK
last_location(status) ==
    LET parts == SplitOn(status, PIPE) IN
    IF Len(parts) > 0 /\ Strip(parts[1]) # <<>> THEN Strip(parts[1]) ELSE UNKNOWN_MARK

\* parts[1].strip() if len(parts) > 1 and parts[1].strip() else UNKNOWN_MARK
next_location(status) ==
    LET parts == SplitOn(status, PIPE) IN
    IF Len(parts) > 1 /\ Strip(parts[2]) # <<>> THEN Strip(parts[2]) ELSE UNKNOWN_MARK

\* LookupReply, passing an unknown identifier on to the operator
MutLookupNotFoundRelays(rows, uid, text, io) ==
    LET result == get_car_status_by_vin(rows, Upper(text), io.db_read) IN
    IF result.found
    THEN <<ReplyText(uid, "status_card",
                     [vin |-> Upper(text), container |-> result.container_number,
                      last |-> last_location(result.status),
                      next |-> next_location(result.status),
                      updated |-> FormatMinute(result.updated_at)], TRUE)>>
    ELSE <<SendMessage(MANAGER_ID, "relay", [user_id |-> uid, text |-> text], TRUE),
           ReplyText(uid, "vin_not_found", <<>>, TRUE)>>

\* the identifier branch: the reply to a text of VIN shape
LookupReply(rows, uid, text, io) ==
    LET result == get_car_status_by_vin(rows, Upper(text), io.db_read) IN
    IF result.found
    THEN <<ReplyText(uid, "status_card",
                     [vin |-> Upper(text), container |-> result.container_number,
                      last |-> last_location(result.status),
                      next |-> next_location(result.status),
                      updated |-> FormatMinute(result.updated_at)], TRUE)>>
    ELSE <<ReplyText(uid, "vin_not_found", <<>>, TRUE)>>

\* the branch of the menu a caption takes, by the keywords found in it
MenuBranch(text) ==
    LET lowered == Lower(text) IN
    IF Contains(KW_WHERE, lowered) THEN "where_help"
    ELSE IF Contains(KW_WANT_CAR, lowered) THEN "intake_form"
    ELSE IF Contains(KW_CONTACT, lowered) \/ Contains(KW_PHONE, lowered) THEN "contact"
    ELSE IF Contains(KW_IN_STOCK, lowered) \/ Contains(KW_WHICH_CARS, lowered)
            \/ Contains(KW_CLIPBOARD, text) THEN "stock_photo"
    ELSE IF Contains(KW_FAQ, lowered) \/ Contains(KW_QUESTION, lowered)
            \/ Contains(KW_QMARK, text) THEN "faq"
    ELSE "none"

\* MenuReply, going on to the acknowledgment of the fallback after the canned reply
MutMenuReplyTwice(uid, text, io) ==
    <<ReplyText(uid, "faq", <<>>, TRUE), ReplyText(uid, "forwarded", <<>>, TRUE)>>

\* the menu branch: the calls made for a caption
MenuReply(uid, text, io) ==
    LET b == MenuBranch(text) IN
    IF b = "none" THEN <<>>
    ELSE IF b = "stock_photo"
    THEN IF io.photo_open THEN <<ReplyPhoto(uid, "stock_photo", <<>>, io.photo_send)>>
         ELSE <<>>
    ELSE <<ReplyText(uid, b, <<>>, TRUE)>>

\* Route, without the return after the rate-limit reply
MutRouteIgnoresThrottle(umc, uid, text, t) ==
    IF IsVinShape(text) THEN "lookup"
    ELSE IF InList(text, keyboard_texts) THEN "menu"
    ELSE "fallback"

\* Route, without the test for a menu caption
MutRouteMenuFallsBack(umc, uid, text, t) ==
    IF is_spam(umc, uid, t).ret THEN "throttled"
    ELSE IF IsVinShape(text) THEN "lookup"
    ELSE "fallback"

\* the branch handle_user_message takes for a text from uid at time t
Route(umc, uid, text, t) ==
    IF is_spam(umc, uid, t).ret THEN "throttled"
    ELSE IF IsVinShape(text) THEN "lookup"
    ELSE IF InList(text, keyboard_texts) THEN "menu"
    ELSE "fallback"

\* user.username or user.first_name or "(No name)"
DisplayName(username, first_name) == Or(Or(username, first_name), "(No name)")

\* the whole handler: what it leaves in the dictionary and the tables, and the
\* transport calls it makes.  io tells which of its I/O operations succeed.
handle_user_message(umc, msgs, cars, users, uid, username, first_name, text, t, io) ==
    LET route == Route(umc, uid, text, t)
        shown == DisplayName(username, first_name)
    IN  [user_message_count |-> is_spam(umc, uid, t).user_message_count,
         bot_users |-> save_bot_user(users, uid, username, first_name, io.db_user),
         messages |->
             IF route = "fallback"
             THEN save_message_to_db(msgs, uid, shown, text, t, io.db_write)
             ELSE msgs,
         out |->
             IF route = "throttled" THEN <<ReplyText(uid, "rate_limited", <<>>, TRUE)>>
             ELSE IF route = "lookup" THEN LookupReply(cars, uid, text, io)
             ELSE IF route = "menu" THEN MenuReply(uid, text, io)
             ELSE <<SendMessage(MANAGER_ID, "relay",
                                [username |-> shown, user_id |-> uid, text |-> text],
                                io.send),
                    ReplyText(uid, "forwarded", <<>>, TRUE)>>,
         ev |-> Event("handle_user_message", uid, text, is_spam(umc, uid, t).ret,
                      route = "lookup" /\ ~io.db_read,
                      route = "fallback" /\ ~io.db_write)]

----------------------------------------------------------------------------
(* Command handlers *)

\* update_vin_status, asking for three parts only and storing an empty status
\* when the fourth is missing
MutUpdateVinStatusThreeParts(cars, uid, text, t, io) ==
    LET parts == SplitWs(text, 3) IN
    IF uid # MANAGER_ID
    THEN [car_status |-> cars,
          out |-> <<ReplyText(uid, "access_denied", <<>>, TRUE)>>,
          ev |-> Event("update_vin_status", uid, text, TRUE, FALSE, FALSE)]
    ELSE IF Len(parts) < 3
    THEN [car_status |-> cars,
          out |-> <<ReplyText(uid, "vinstatus_usage", <<>>, TRUE)>>,
          ev |-> Event("update_vin_status", uid, text, FALSE, FALSE, FALSE)]
    ELSE LET status == IF Len(parts) < 4 THEN <<>> ELSE parts[4] IN
         [car_status |-> upsert_car_status(cars, Upper(parts[2]), parts[3], status, t,
                                           io.db_write),
          out |-> <<ReplyText(uid, IF io.db_write THEN "status_updated" ELSE "update_failed",
                              <<>>, TRUE)>>,
          ev |-> Event("update_vin_status", uid, text, FALSE, FALSE, ~io.db_write)]

\* update_vin_status: the car_status table it leaves and the calls it makes
update_vin_status(cars, uid, text, t, io) ==
    LET parts == SplitWs(text, 3) IN
    IF uid # MANAGER_ID
    THEN [car_status |-> cars,
          out |-> <<ReplyText(uid, "access_denied", <<>>, TRUE)>>,
          ev |-> Event("update_vin_status", uid, text, TRUE, FALSE, FALSE)]
    ELSE IF Len(parts) < 4
    THEN [car_status |-> cars,
          out |-> <<ReplyText(uid, "vinstatus_usage", <<>>, TRUE)>>,
          ev |-> Event("update_vin_status", uid, text, FALSE, FALSE, FALSE)]
    ELSE LET vin == Upper(parts[2])
             container == parts[3]
             status == parts[4]
             echo == [vin |-> vin, container |-> container, status |-> status]
         IN  [car_status |-> upsert_car_status(cars, vin, container, status, t, io.db_write),
              out |->
                  IF ~io.db_write
                  THEN <<ReplyText(uid, "update_failed", <<>>, TRUE)>>
                  ELSE IF io.reply
                  THEN <<ReplyText(uid, "status_updated", echo, TRUE)>>
                  ELSE <<ReplyText(uid, "status_updated", echo, FALSE),
                         ReplyText(uid, "update_failed", <<>>, TRUE)>>,
              ev |-> Event("update_vin_status", uid, text, FALSE, FALSE, ~io.db_write)]

\* db.query(Message).order_by(Message.id.desc()).limit(limit).all()
LastMessages(msgs, limit) ==
    LET n == IF Len(msgs) < limit THEN Len(msgs) ELSE limit IN
    [i \in 1..n |-> msgs[Len(msgs) - i + 1]]

\* get_last_messages: the calls it makes (the listing is sent as its rows; the
\* cut of the rendered text to the transport's 4096 characters is not modelled)
get_last_messages(msgs, uid, io) ==
    LET rows == LastMessages(msgs, MESSAGES_LIMIT)
        failed == ReplyText(uid, "retrieve_failed", <<>>, TRUE)
    IN  IF uid # MANAGER_ID
        THEN [out |-> <<ReplyText(uid, "access_denied", <<>>, TRUE)>>,
              ev |-> Event("get_last_messages", uid, <<>>, TRUE, FALSE, FALSE)]
        ELSE [out |->
                  IF ~io.db_read THEN <<ReplyText(uid, "retrieve_failed", <<>>, TRUE)>>
                  ELSE IF rows = <<>>
                  THEN <<ReplyText(uid, "no_messages", <<>>, io.reply)>>
                       \o (IF io.reply THEN <<>> ELSE <<failed>>)
                  ELSE <<ReplyText(uid, "last_messages", rows, io.reply)>>
                       \o (IF io.reply THEN <<>> ELSE <<failed>>),
              ev |-> Event("get_last_messages", uid, <<>>, FALSE, ~io.db_read, FALSE)]

\* context.args: the words of the command's text after the command itself
CommandArgs(text) == Tail(SplitWs(text, Len(text)))

\* reply_command, without the comparison with MANAGER_ID
MutReplyCommandNoAccessCheck(uid, text, io) ==
    LET args == CommandArgs(text) IN
    IF Len(args) < 2
    THEN [out |-> <<ReplyText(uid, "reply_usage", <<>>, TRUE)>>,
          ev |-> Event("reply_command", uid, text, FALSE, FALSE, FALSE)]
    ELSE [out |->
              IF ~IsIntLiteral(args[1])
              THEN <<ReplyText(uid, "send_failed", <<>>, TRUE)>>
              ELSE <<SendMessage(IntValue(args[1]), "manager_reply",
                                 Join(Tail(args), <<32>>), io.send),
                     ReplyText(uid, IF io.send THEN "message_sent" ELSE "send_failed",
                               <<>>, TRUE)>>,
          ev |-> Event("reply_command", uid, text, FALSE, FALSE, FALSE)]

\* reply_command, sending a second time when the first send is not accepted
MutReplyCommandRetries(uid, text, io) ==
    LET args == CommandArgs(text) IN
    IF uid # MANAGER_ID
    THEN [out |-> <<ReplyText(uid, "access_denied", <<>>, TRUE)>>,
          ev |-> Event("reply_command", uid, text, TRUE, FALSE, FALSE)]
    ELSE IF Len(args) < 2
    THEN [out |-> <<ReplyText(uid, "reply_usage", <<>>, TRUE)>>,
          ev |-> Event("reply_command", uid, text, FALSE, FALSE, FALSE)]
    ELSE [out |->
              IF ~IsIntLiteral(args[1])
              THEN <<ReplyText(uid, "send_failed", <<>>, TRUE)>>
              ELSE IF ~io.send
              THEN <<SendMessage(IntValue(args[1]), "manager_reply",
                                 Join(Tail(args), <<32>>), FALSE),
                     SendMessage(IntValue(args[1]), "manager_reply",
                                 Join(Tail(args), <<32>>), TRUE),
                     ReplyText(uid, "message_sent", <<>>, TRUE)>>
              ELSE <<SendMessage(IntValue(args[1]), "manager_reply",
                                 Join(Tail(args), <<32>>), TRUE),
                     ReplyText(uid, "message_sent", <<>>, TRUE)>>,
          ev |-> Event("reply_command", uid, text, FALSE, FALSE, FALSE)]

\* reply_command: the calls it makes
reply_command(uid, text, io) ==
    LET args == CommandArgs(text) IN
    IF uid # MANAGER_ID
    THEN [out |-> <<ReplyText(uid, "access_denied", <<>>, TRUE)>>,
          ev |-> Event("reply_command", uid, text, TRUE, FALSE, FALSE)]
    ELSE IF Len(args) < 2
    THEN [out |-> <<ReplyText(uid, "reply_usage", <<>>, TRUE)>>,
          ev |-> Event("reply_command", uid, text, FALSE, FALSE, FALSE)]
    ELSE LET user_id == args[1]
             reply_text == Join(Tail(args), <<32>>)
         IN  [out |->
                  IF ~IsIntLiteral(user_id)
                  THEN <<ReplyText(uid, "send_failed", <<>>, TRUE)>>
                  ELSE IF ~io.send
                  THEN <<SendMessage(IntValue(user_id), "manager_reply", reply_text, FALSE),
                         ReplyText(uid, "send_failed", <<>>, TRUE)>>
                  ELSE <<SendMessage(IntValue(user_id), "manager_reply", reply_text, TRUE),
                         ReplyText(uid, "message_sent", <<>>, io.reply)>>
                       \o (IF io.reply THEN <<>>
                           ELSE <<ReplyText(uid, "send_failed", <<>>, TRUE)>>),
              ev |-> Event("reply_command", uid, text, FALSE, FALSE, FALSE)]

\* start: the bot_users table it leaves and the call it makes
start(users, uid, username, first_name, io) ==
    [bot_users |-> save_bot_user(users, uid, Or(username, "unknown"),
                                 Or(first_name, "User"), io.db_user),
     out |-> <<ReplyText(uid, "welcome", <<>>, TRUE)>>,
     ev |-> Event("start", uid, <<>>, FALSE, FALSE, FALSE)]

----------------------------------------------------------------------------
(* src/app.py, the earlier router: no rate limiter and no identifier lookup; *)
(* its archive is the "ClientMessages" sheet                                 *)

\* the menu captions, keyboard_texts of app.py's handle_user_message
APP_CAP_DELIVERY ==
    <<128229, 32, 1055, 1088, 1080, 1075, 1110, 1085, 32, 1072, 1074, 1090, 1086>>
APP_CAP_PRICE == <<128176, 32, 1062, 1110, 1085, 1072>>
APP_CAP_CONTACT == <<128222, 32, 1050, 1086, 1085, 1090, 1072, 1082, 1090>>
APP_CAP_IN_STOCK ==
    <<128203, 32, 1042, 32, 1085, 1072, 1103, 1074, 1085, 1086, 1089, 1090, 1110>>
APP_CAP_WHERE == <<128663, 32, 1044, 1077, 32, 1072, 1074, 1090, 1086, 63>>

app_keyboard_texts ==
    <<APP_CAP_DELIVERY, APP_CAP_PRICE, APP_CAP_CONTACT, APP_CAP_IN_STOCK, APP_CAP_WHERE>>

\* the keywords app.py's menu looks for
APP_KW_WHERE == <<1076, 1077, 32, 1072, 1074, 1090, 1086>>
APP_KW_DELIVERY_STATUS ==
    <<1089, 1090, 1072, 1090, 1091, 1089, 32, 1076, 1086, 1089, 1090, 1072, 1074, 1082, 1080>>
APP_KW_DELIVERY == <<1087, 1088, 1080, 1075, 1110, 1085, 32, 1072, 1074, 1090, 1086>>
APP_KW_PRICE == <<1094, 1110, 1085, 1072>>
APP_KW_CONTACT == <<1082, 1086, 1085, 1090, 1072, 1082, 1090>>
APP_KW_PHONE == <<1090, 1077, 1083, 1077, 1092, 1086, 1085>>
APP_KW_IN_STOCK == <<1074, 32, 1085, 1072, 1103, 1074, 1085, 1086, 1089, 1090, 1110>>
APP_KW_WHICH_CARS == <<1103, 1082, 1110, 32, 1072, 1074, 1090, 1086>>

\* the name put in place of a missing username
APP_NO_USERNAME == <<40, 1073, 1077, 1079, 32, 117, 115, 101, 114, 110, 97, 109, 101, 41>>

\* app.py's save_message_to_db: append_row, a failure being logged and dropped
app_save_message_to_db(rows, user_id, username, message_text, t, ok) ==
    IF ok
    THEN Append(rows, [timestamp |-> t, user_id |-> user_id, username |-> username,
                       message |-> message_text])
    ELSE rows

\* the branch of app.py's menu a text takes, by the keywords found in it
AppMenuBranch(text) ==
    LET lowered == Lower(text) IN
    IF Contains(APP_KW_WHERE, lowered) \/ Contains(APP_KW_DELIVERY_STATUS, lowered)
    THEN "where_help"
    ELSE IF Contains(APP_KW_DELIVERY, lowered) THEN "intake_form"
    ELSE IF Contains(APP_KW_PRICE, lowered) THEN "price"
    ELSE IF Contains(APP_KW_CONTACT, lowered) \/ Contains(APP_KW_PHONE, lowered)
    THEN "contact"
    ELSE IF Contains(APP_KW_IN_STOCK, lowered) \/ Contains(APP_KW_WHICH_CARS, lowered)
    THEN "stock_list"
    ELSE "none"

\* app.py's handle_user_message: the sheet it leaves and the calls it makes
app_handle_user_message(rows, uid, username, text, t, io) ==
    LET shown == Or(username, APP_NO_USERNAME)
        relayed == ~InList(text, app_keyboard_texts) /\ uid # MANAGER_ID
        b == AppMenuBranch(text)
    IN  [sheet |->
             IF relayed THEN app_save_message_to_db(rows, uid, shown, text, t, io.db_write)
             ELSE rows,
         out |->
             IF relayed
             THEN <<SendMessage(MANAGER_ID, "relay",
                                [username |-> shown, user_id |-> uid, text |-> text],
                                io.send)>>
                  \o (IF ~io.send THEN <<ReplyText(uid, "relay_failed", <<>>, TRUE)>>
                      ELSE IF io.reply THEN <<ReplyText(uid, "forwarded", <<>>, TRUE)>>
                      ELSE <<ReplyText(uid, "forwarded", <<>>, FALSE),
                             ReplyText(uid, "relay_failed", <<>>, TRUE)>>)
             ELSE IF b = "none" THEN <<>>
             ELSE <<ReplyText(uid, b, <<>>, TRUE)>>,
         ev |-> Event("app.handle_user_message", uid, text, FALSE, FALSE,
                      relayed /\ ~io.db_write)]

----------------------------------------------------------------------------
(* Inputs the model draws *)

\* the identities that send updates
Identities == {MANAGER_ID, Customer, Customer2}

\* user.username of an identity: the first customer has set none
Username(uid) ==
    IF uid = MANAGER_ID THEN "boss" ELSE IF uid = Customer THEN None ELSE "bob"

\* user.first_name of an identity
FirstName(uid) ==
    IF uid = MANAGER_ID THEN "Rostyslav" ELSE IF uid = Customer THEN "Alla" ELSE "Bohdan"

\* "WBAVA37503ABCD123" and the same identifier typed in lower case
VIN_UPPER == <<87, 66, 65, 86, 65, 51, 55, 53, 48, 51, 65, 66, 67, 68, 49, 50, 51>>
VIN_LOWER == <<119, 98, 97, 118, 97, 51, 55, 53, 48, 51, 97, 98, 99, 100, 49, 50, 51>>

\* "WBAVA-7503ABCD123": 17 characters, not alphanumeric
VIN_DASHED == <<87, 66, 65, 86, 65, 45, 55, 53, 48, 51, 65, 66, 67, 68, 49, 50, 51>>

\* "hi"
TEXT_HI == <<104, 105>>

\* the texts sent as plain messages
MessageTexts == {VIN_UPPER, VIN_LOWER, VIN_DASHED, TEXT_HI, CAP_FAQ, CAP_IN_STOCK, CAP_WHERE}

SP == <<32>>
CMD_VINSTATUS == <<47, 118, 105, 110, 115, 116, 97, 116, 117, 115>>
CMD_REPLY == <<47, 114, 101, 112, 108, 121>>

\* "CNT99", "C7"
CNT99 == <<67, 78, 84, 57, 57>>
C7 == <<67, 55>>

\* "Kyiv | Warsaw", "Kyiv"
KYIV_WARSAW == <<75, 121, 105, 118, 32, 124, 32, 87, 97, 114, 115, 97, 119>>
KYIV == <<75, 121, 105, 118>>

\* the texts sent as /vinstatus commands: two well-formed ones for the same
\* identifier, and one with too few arguments
VinstatusTexts ==
    {CMD_VINSTATUS \o SP \o VIN_UPPER \o SP \o CNT99 \o SP \o KYIV_WARSAW,
     CMD_VINSTATUS \o SP \o VIN_LOWER \o SP \o C7 \o SP \o KYIV,
     CMD_VINSTATUS \o SP \o VIN_UPPER \o SP \o CNT99}

\* the texts sent as /reply commands: "/reply 2 hi hi", "/reply hi hi", "/reply 2"
ReplyTexts ==
    {CMD_REPLY \o SP \o <<50>> \o SP \o TEXT_HI \o SP \o TEXT_HI,
     CMD_REPLY \o SP \o TEXT_HI \o SP \o TEXT_HI,
     CMD_REPLY \o SP \o <<50>>}

\* the parts a status text is put together from: nothing, a blank, " K "
StatusPieces == {<<>>, <<32>>, <<32, 75, 32>>}

\* the sequences of n parts
RECURSIVE PartLists(_)
PartLists(n) ==
    IF n = 0 THEN {<<>>}
    ELSE {Append(ps, p) : ps \in PartLists(n - 1), p \in StatusPieces}

\* the status texts of one to MaxParts parts
StatusTexts == {Join(ps, <<PIPE>>) : ps \in UNION {PartLists(n) : n \in 1..MaxParts}}

\* /vinstatus commands that store each of them for the same identifier
StatusCommands == {CMD_VINSTATUS \o SP \o VIN_UPPER \o SP \o C7 \o SP \o st : st \in StatusTexts}

\* the I/O operations of a handler that may fail: the writes and reads of the
\* tables, the send to another chat, a reply made inside a try block, and the
\* opening and sending of the stock photo
IoFields == {"db_user", "db_read", "db_write", "send", "reply", "photo_open", "photo_send"}

\* every outcome in which the operations outside S succeed
IoVary(S) == {[f \in IoFields |-> f \notin T] : T \in SUBSET S}

\* the fallible operations handle_user_message performs for a text on a route
HumIo(route, text) ==
    IF route = "lookup" THEN {"db_read"}
    ELSE IF route = "fallback" THEN {"db_write", "send"}
    ELSE IF route = "menu" /\ MenuBranch(text) = "stock_photo"
    THEN {"photo_open", "photo_send"}
    ELSE {}

\* the fallible operations update_vin_status performs for a text from uid
VinIo(uid, text) ==
    IF uid = MANAGER_ID /\ Len(SplitWs(text, 3)) >= 4 THEN {"db_write", "reply"} ELSE {}

\* the fallible operations reply_command performs for a text from uid
ReplyIo(uid, text) ==
    IF uid = MANAGER_ID /\ Len(CommandArgs(text)) >= 2 /\ IsIntLiteral(CommandArgs(text)[1])
    THEN {"send", "reply"}
    ELSE {}

----------------------------------------------------------------------------
(* The state machine *)

Init ==
    /\ now = 0
    /\ user_message_count = [u \in Identities |-> <<>>]
    /\ messages = <<>>
    /\ car_status = <<>>
    /\ bot_users = <<>>
    /\ ev = Event("none", 0, <<>>, FALSE, FALSE, FALSE)
    /\ out = <<>>
    /\ admitted = [u \in Identities |-> <<>>]
    /\ sheet = <<>>
    /\ sched = [inbox |-> <<>>, tasks |-> <<>>, arrived |-> 0, archived |-> <<>>]

\* time passes
Tick ==
    /\ now + TickStep <= MaxTime
    /\ now' = now + TickStep
    /\ UNCHANGED <<user_message_count, messages, car_status, bot_users, ev, out, admitted, sheet, sched>>

\* a plain text message arrives from uid; S names the operations that may fail
HandleUserMessageIo(uid, text, S) ==
    \E io \in IoVary(S) :
        LET r == handle_user_message(user_message_count, messages, car_status, bot_users,
                                     uid, Username(uid), FirstName(uid), text, now, io)
        IN  /\ Len(r.messages) <= MaxMessages
            /\ user_message_count' = r.user_message_count
            /\ messages' = r.messages
            /\ bot_users' = r.bot_users
            /\ ev' = r.ev
            /\ out' = r.out
            /\ admitted' = IF r.ev.denied THEN admitted
                           ELSE [admitted EXCEPT ![uid] = Append(@, now)]
            /\ UNCHANGED <<now, car_status, sheet, sched>>

\* a plain text message arrives from uid, the profile write succeeding
HandleUserMessage(uid, text) ==
    HandleUserMessageIo(uid, text, HumIo(Route(user_message_count, uid, text, now), text))

\* /vinstatus arrives from uid
UpdateVinStatus(uid, text) ==
    \E io \in IoVary(VinIo(uid, text)) :
        LET r == update_vin_status(car_status, uid, text, now, io) IN
        /\ car_status' = r.car_status
        /\ ev' = r.ev
        /\ out' = r.out
        /\ UNCHANGED <<now, user_message_count, messages, bot_users, admitted, sheet, sched>>

\* /messages arrives from uid
GetLastMessages(uid) ==
    \E io \in IoVary(IF uid = MANAGER_ID THEN {"db_read", "reply"} ELSE {}) :
        LET r == get_last_messages(messages, uid, io) IN
        /\ ev' = r.ev
        /\ out' = r.out
        /\ UNCHANGED <<now, user_message_count, messages, car_status, bot_users, admitted, sheet, sched>>

\* /reply arrives from uid
ReplyCommand(uid, text) ==
    \E io \in IoVary(ReplyIo(uid, text)) :
        LET r == reply_command(uid, text, io) IN
        /\ ev' = r.ev
        /\ out' = r.out
        /\ UNCHANGED <<now, user_message_count, messages, car_status, bot_users, admitted, sheet, sched>>

\* /start arrives from uid
Start(uid) ==
    \E io \in IoVary({"db_user"}) :
        LET r == start(bot_users, uid, Username(uid), FirstName(uid), io) IN
        /\ bot_users' = r.bot_users
        /\ ev' = r.ev
        /\ out' = r.out
        /\ UNCHANGED <<now, user_message_count, messages, car_status, admitted, sheet, sched>>

\* app.py: a plain text message arrives from uid
AppHandleUserMessage(uid, text) ==
    \E io \in IoVary(IF ~InList(text, app_keyboard_texts) /\ uid # MANAGER_ID
                     THEN {"db_write", "send", "reply"} ELSE {}) :
        LET r == app_handle_user_message(sheet, uid, Username(uid), text, now, io) IN
        /\ Len(r.sheet) <= MaxMessages
        /\ sheet' = r.sheet
        /\ ev' = r.ev
        /\ out' = r.out
        /\ UNCHANGED <<now, user_message_count, messages, car_status, bot_users, admitted,
                       sched>>

\* The router and the operator's commands: a customer and the operator send,
\* all within one instant
Next ==
    \/ \E text \in MessageTexts : HandleUserMessage(Customer, text)
    \/ \E uid \in {MANAGER_ID, Customer}, text \in VinstatusTexts : UpdateVinStatus(uid, text)
    \/ \E uid \in {MANAGER_ID, Customer} : GetLastMessages(uid)
    \/ \E uid \in {MANAGER_ID, Customer}, text \in ReplyTexts : ReplyCommand(uid, text)

Spec == Init /\ [][Next]_vars

\* The anti-spam window over time: a customer sends a menu caption, and the
\* write of the customer's profile may fail
NextRate ==
    \/ Tick
    \/ HandleUserMessageIo(Customer, CAP_FAQ, {"db_user"})

SpecRate == Init /\ [][NextRate]_vars

\* The operator alone: plain messages and commands from MANAGER_ID
NextOperator ==
    \/ \E text \in {TEXT_HI, CAP_WHERE, VIN_UPPER} : HandleUserMessage(MANAGER_ID, text)
    \/ \E text \in VinstatusTexts : UpdateVinStatus(MANAGER_ID, text)
    \/ GetLastMessages(MANAGER_ID)

SpecOperator == Init /\ [][NextOperator]_vars

\* The status card: the operator stores status texts of every shape, a
\* customer looks the identifier up, and no I/O operation fails
NextRender ==
    \/ \E text \in StatusCommands :
           \E io \in IoVary({}) :
               LET r == update_vin_status(car_status, MANAGER_ID, text, now, io) IN
               /\ car_status' = r.car_status
               /\ ev' = r.ev
               /\ out' = r.out
               /\ UNCHANGED <<now, user_message_count, messages, bot_users, admitted, sheet, sched>>
    \/ HandleUserMessageIo(Customer, VIN_LOWER, {})

SpecRender == Init /\ [][NextRender]_vars

\* The menus of the two routers, each deployment over its own archive: a
\* customer writes to main.py's bot, a customer and the operator to app.py's
NextMenu ==
    \/ \E text \in {CAP_WANT_CAR, CAP_FAQ, CAP_CONTACT, CAP_IN_STOCK, CAP_WHERE, TEXT_HI} :
           HandleUserMessage(Customer, text)
    \/ \E uid \in {MANAGER_ID, Customer} :
           \E text \in {APP_CAP_DELIVERY, APP_CAP_PRICE, APP_CAP_CONTACT, APP_CAP_IN_STOCK,
                        APP_CAP_WHERE, TEXT_HI} :
               AppHandleUserMessage(uid, text)

SpecMenu == Init /\ [][NextMenu]_vars

----------------------------------------------------------------------------
(* Handler tasks in flight together.  The dispatcher takes the fetched       *)
(* updates in the order of their arrival and starts a handler for each; a    *)
(* handler runs without interruption up to its next await, and the awaits    *)
(* of handle_user_message are its transport calls.  Everything before the    *)
(* first of them (save_bot_user, is_spam, get_car_status_by_vin,             *)
(* save_message_to_db) is synchronous code and is one step.  In these        *)
(* specifications out holds the call made by the last step.  A handler may   *)
(* start while others are suspended, which covers an Application built with  *)
(* concurrent updates as well as the default one.                            *)

\* the fetched update a handler is started for, taking the newest first
MutNextUpdateNewest(inbox) == Len(inbox)

\* the fetched update a handler is started for: the oldest
NextUpdate(inbox) == 1

\* s without its k-th element
RemoveAt(s, k) == SubSeq(s, 1, k - 1) \o SubSeq(s, k + 1, Len(s))

\* an update with a plain text from uid is fetched; cap bounds the arrivals
Arrive(uid, text, cap) ==
    /\ sched.arrived < cap
    /\ Len(sched.inbox) < MaxInbox
    /\ sched' = [sched EXCEPT !.inbox = Append(@, [uid |-> uid, text |-> text,
                                                    n |-> sched.arrived + 1]),
                              !.arrived = @ + 1]
    /\ UNCHANGED <<now, user_message_count, messages, car_status, bot_users, ev, out,
                   admitted, sheet>>

\* a handler task is started for the next fetched update and runs to its first
\* await; S names the operations that may fail
StartTask(S) ==
    /\ sched.inbox # <<>>
    /\ Len(sched.tasks) < MaxTasks
    /\ \E io \in IoVary(S) :
           LET k == NextUpdate(sched.inbox)
               u == sched.inbox[k]
               r == handle_user_message(user_message_count, messages, car_status, bot_users,
                                        u.uid, Username(u.uid), FirstName(u.uid), u.text,
                                        now, io)
           IN  /\ Len(r.messages) <= MaxMessages
               /\ user_message_count' = r.user_message_count
               /\ messages' = r.messages
               /\ bot_users' = r.bot_users
               /\ ev' = r.ev
               /\ out' = <<>>
               /\ admitted' = IF r.ev.denied THEN admitted
                              ELSE [admitted EXCEPT ![u.uid] = Append(@, now)]
               /\ sched' = [sched EXCEPT
                                !.inbox = RemoveAt(@, k),
                                !.tasks = IF r.out = <<>> THEN @
                                          ELSE Append(@, [ev |-> r.ev, calls |-> r.out]),
                                !.archived = IF Len(r.messages) > Len(messages)
                                             THEN Append(@, [uid |-> u.uid, n |-> u.n])
                                             ELSE @]
               /\ UNCHANGED <<now, car_status, sheet>>

\* the k-th suspended task makes its next transport call, and ends with its last
StepTask(k) ==
    /\ k \in 1..Len(sched.tasks)
    /\ LET task == sched.tasks[k] IN
       /\ out' = <<Head(task.calls)>>
       /\ ev' = task.ev
       /\ sched' = [sched EXCEPT
                        !.tasks = IF Len(task.calls) = 1 THEN RemoveAt(@, k)
                                  ELSE [@ EXCEPT ![k].calls = Tail(@)]]
    /\ UNCHANGED <<now, user_message_count, messages, car_status, bot_users, admitted,
                   sheet>>

\* Free-form texts of two customers handled by interleaved tasks
NextTasks ==
    \/ \E uid \in {Customer, Customer2} : Arrive(uid, TEXT_HI, MaxArrivals)
    \/ StartTask({"db_write"})
    \/ \E k \in 1..MaxTasks : StepTask(k)

SpecTasks == Init /\ [][NextTasks]_vars

\* The anti-spam window under interleaved tasks: while time passes a customer
\* sends a caption RateArrivals times, after another customer has sent it once
NextTasksRate ==
    \/ Tick
    \/ Arrive(Customer2, CAP_FAQ, 1)
    \/ (sched.arrived > 0 /\ Arrive(Customer, CAP_FAQ, RateArrivals + 1))
    \/ StartTask({})
    \/ \E k \in 1..MaxTasks : StepTask(k)

SpecTasksRate == Init /\ [][NextTasksRate]_vars

\* "ABC": an identifier too short for the identifier shape
VIN_SHORT == <<65, 66, 67>>

\* /vinstatus commands for identifiers of three shapes: 17 alphanumeric
\* characters, 17 characters with a dash, and three characters
ShapeCommands ==
    {CMD_VINSTATUS \o SP \o vin \o SP \o C7 \o SP \o KYIV :
        vin \in {VIN_UPPER, VIN_DASHED, VIN_SHORT}}

\* The shape of stored identifiers: the operator stores statuses under
\* identifiers of every shape, and a customer sends two of them
NextShape ==
    \/ \E text \in ShapeCommands : UpdateVinStatus(MANAGER_ID, text)
    \/ \E text \in {VIN_UPPER, VIN_SHORT} : HandleUserMessage(Customer, text)

SpecShape == Init /\ [][NextShape]_vars

----------------------------------------------------------------------------
(* Properties *)

\* the step handles an update with handler h (Tick alone moves the clock)
Handled(h) == now' = now /\ ev'.handler = h

\* a text of the identifier shape: 17 characters, all alphanumeric
IdShape(text) == Len(text) = 17 /\ \A i \in 1..Len(text) : CharIsAlnum(text[i])

\* a text that equals a menu caption
IsCaption(text) == \E i \in 1..Len(keyboard_texts) : keyboard_texts[i] = text

\* the calls among o of one kind, to one chat, with one template
Calls(o, call, chat_id, tag) ==
    {i \in 1..Len(o) : o[i].call = call /\ o[i].chat_id = chat_id /\ o[i].tag = tag}

\* the rows of car_status with identifier vin
RowsOf(rows, vin) == {i \in 1..Len(rows) : rows[i].vin = vin}

\* C1: when the MESSAGE_LIMIT messages an identity had admitted last lie within
\* one TIME_LIMIT window, its next message is denied if it arrives less than
\* TIME_LIMIT after the first of them, and admitted if it arrives TIME_LIMIT or
\* more after the first of them.
C1_WindowDeniesThenAdmits ==
    [][Handled("handle_user_message") =>
          LET a == admitted[ev'.uid]
              n == Len(a)
          IN  (n >= MESSAGE_LIMIT /\ a[n] - a[n - MESSAGE_LIMIT + 1] < TIME_LIMIT) =>
                  /\ (now - a[n - MESSAGE_LIMIT + 1] < TIME_LIMIT => ev'.denied)
                  /\ (now - a[n - MESSAGE_LIMIT + 1] >= TIME_LIMIT => ~ev'.denied)
      ]_vars

\* a message is denied after an identity was admitted again past a full window
C1_Witness ==
    /\ ev.handler = "handle_user_message"
    /\ ev.denied
    /\ Len(admitted[ev.uid]) > MESSAGE_LIMIT

\* C2: a text message the rate limiter denies makes exactly one transport call,
\* the rate-limit reply to its sender, and leaves the messages and car_status
\* tables as they were.
C2_ThrottledRepliesOnly ==
    [][(Handled("handle_user_message") /\ ev'.denied) =>
          /\ out' = <<ReplyText(ev'.uid, "rate_limited", <<>>, TRUE)>>
          /\ messages' = messages
          /\ car_status' = car_status
      ]_vars

\* a free-form text was denied
C2_Witness ==
    /\ ev.handler = "handle_user_message"
    /\ ev.denied
    /\ ev.text = TEXT_HI
    /\ Len(out) = 1

\* C3: after a /vinstatus of the operator was committed, car_status holds
\* exactly one row for the upper-cased identifier and a read of it returns the
\* status text and the container of that command; no other update changes
\* car_status, so a later lookup reads what the last /vinstatus wrote.
C3_UpsertThenGet ==
    [][IF Handled("update_vin_status") /\ ev'.uid = MANAGER_ID
          /\ Len(SplitWs(ev'.text, 3)) >= 4 /\ ~ev'.write_failed
       THEN LET parts == SplitWs(ev'.text, 3)
                got == get_car_status_by_vin(car_status', Upper(parts[2]), TRUE)
            IN  /\ Cardinality(RowsOf(car_status', Upper(parts[2]))) = 1
                /\ got.found
                /\ got.status = parts[4]
                /\ got.container_number = parts[3]
       ELSE car_status' = car_status
      ]_vars

\* the operator's second /vinstatus for an identifier was committed
C3_Witness ==
    /\ ev.handler = "update_vin_status"
    /\ ~ev.write_failed
    /\ ev.text = CMD_VINSTATUS \o SP \o VIN_LOWER \o SP \o C7 \o SP \o KYIV
    /\ car_status = <<[vin |-> VIN_UPPER, status |-> KYIV, container_number |-> C7,
                       updated_at |-> 0]>>

\* C4: /vinstatus, /messages and /reply from an identity other than the
\* operator make exactly one transport call, the access-denied reply to the
\* sender, and change no table and no rate window.
C4_NonOperatorDenied ==
    [][((Handled("update_vin_status") \/ Handled("get_last_messages")
            \/ Handled("reply_command")) /\ ev'.uid # MANAGER_ID) =>
          /\ out' = <<ReplyText(ev'.uid, "access_denied", <<>>, TRUE)>>
          /\ car_status' = car_status
          /\ messages' = messages
          /\ bot_users' = bot_users
          /\ user_message_count' = user_message_count
      ]_vars

\* a customer sent a well-formed /reply
C4_Witness ==
    /\ ev.handler = "reply_command"
    /\ ev.uid = Customer
    /\ Len(CommandArgs(ev.text)) >= 2
    /\ IsIntLiteral(CommandArgs(ev.text)[1])

\* the free-form case of C5: an admitted text from a customer that has neither
\* the identifier shape nor the text of a menu caption
FreeFormHandled ==
    /\ Handled("handle_user_message")
    /\ ~ev'.denied
    /\ ev'.uid # MANAGER_ID
    /\ ~IdShape(ev'.text)
    /\ ~IsCaption(ev'.text)

\* one relay to the operator followed by one acknowledgment to the sender
RelayedAndAcknowledged(o, uid) ==
    /\ Len(o) = 2
    /\ Cardinality(Calls(o, "send_message", MANAGER_ID, "relay")) = 1
    /\ Cardinality(Calls(o, "reply_text", uid, "forwarded")) = 1

\* C5 as claimed: a free-form text always adds exactly one row to messages,
\* is relayed once and acknowledged once.
C5_AlwaysArchivesOneRow ==
    [][FreeFormHandled =>
          /\ Len(messages') = Len(messages) + 1
          /\ RelayedAndAcknowledged(out', ev'.uid)
      ]_vars

\* C5, amended: a free-form text adds exactly one row to messages, holding its
\* sender and text, when the append is committed and none when the append
\* fails; either way it is relayed once and acknowledged once, whether or not
\* the relay is accepted.
C5_ArchivesOneRowIfCommitted ==
    [][FreeFormHandled =>
          /\ IF ev'.write_failed
             THEN messages' = messages
             ELSE /\ Len(messages') = Len(messages) + 1
                  /\ SubSeq(messages', 1, Len(messages)) = messages
                  /\ messages'[Len(messages')].user_id = ev'.uid
                  /\ messages'[Len(messages')].message = ev'.text
          /\ RelayedAndAcknowledged(out', ev'.uid)
      ]_vars

\* a free-form text was archived and acknowledged though its relay failed
C5_Witness ==
    /\ ev.handler = "handle_user_message"
    /\ ~ev.denied
    /\ ev.text = TEXT_HI
    /\ ~ev.write_failed
    /\ Len(out) = 2
    /\ ~out[1].ok
    /\ out[2].tag = "forwarded"
    /\ Len(messages) > 0

\* C6: an admitted text of the identifier shape from a customer, with no row
\* for its identifier in car_status, makes exactly one transport call, the
\* not-found reply to the sender, and adds no row to messages.
C6_UnknownVinNotFoundOnly ==
    [][(Handled("handle_user_message") /\ ~ev'.denied /\ ev'.uid # MANAGER_ID
           /\ IdShape(ev'.text) /\ RowsOf(car_status, Upper(ev'.text)) = {}) =>
          /\ out' = <<ReplyText(ev'.uid, "vin_not_found", <<>>, TRUE)>>
          /\ messages' = messages
          /\ car_status' = car_status
      ]_vars

\* an identifier was looked up, its read succeeding, while car_status was empty
C6_Witness ==
    /\ ev.handler = "handle_user_message"
    /\ ~ev.denied
    /\ ~ev.read_failed
    /\ ev.text = VIN_UPPER
    /\ car_status = <<>>
    /\ Len(out) = 1

\* C7 as claimed: a text from the operator that is neither a menu caption nor
\* of the identifier shape makes no transport call and adds no row to messages.
C7_OperatorTextDropped ==
    [][(Handled("handle_user_message") /\ ~ev'.denied /\ ev'.uid = MANAGER_ID
           /\ ~IdShape(ev'.text) /\ ~IsCaption(ev'.text)) =>
          /\ out' = <<>>
          /\ messages' = messages
      ]_vars

\* C8 as claimed: a lookup whose read of car_status failed is not answered with
\* the not-found reply.
C8_LookupFailedNotNotFound ==
    (ev.handler = "handle_user_message" /\ ~ev.denied /\ IdShape(ev.text) /\ ev.read_failed)
        => \A i \in 1..Len(out) : out[i].tag # "vin_not_found"

\* the text before the first "|" of a status, trimmed
BeforeFirstPipe(status) == Strip(SubSeq(status, 1, FirstChar(status, PIPE, 1) - 1))

\* the whole text after the first "|" of a status, trimmed
AfterFirstPipe(status) ==
    Strip(SubSeq(status, FirstChar(status, PIPE, 1) + 1, Len(status)))

\* C9 as claimed: a status card shows the text before the first "|" as the
\* last location and the whole text after it as the next stop, each trimmed,
\* and the unknown marker for a side that is missing or empty.
C9_SplitOnFirstPipeOnly ==
    (ev.handler = "handle_user_message" /\ out # <<>> /\ out[1].tag = "status_card") =>
        \A i \in RowsOf(car_status, out[1].args.vin) :
            LET before == BeforeFirstPipe(car_status[i].status)
                after == AfterFirstPipe(car_status[i].status)
            IN  /\ out[1].args.last = (IF before = <<>> THEN UNKNOWN_MARK ELSE before)
                /\ out[1].args.next = (IF after = <<>> THEN UNKNOWN_MARK ELSE after)

\* C10: an admitted text of the identifier shape is answered by the identifier
\* lookup alone: one reply to the sender, the status card or the not-found
\* notice, with no menu reply, no relay and no row added to messages.
C10_IdentifierIsLookup ==
    [][(Handled("handle_user_message") /\ ~ev'.denied /\ IdShape(ev'.text)) =>
          /\ Len(out') = 1
          /\ out'[1].call = "reply_text"
          /\ out'[1].chat_id = ev'.uid
          /\ out'[1].tag \in {"status_card", "vin_not_found"}
          /\ (out'[1].tag = "status_card" => out'[1].args.vin = Upper(ev'.text))
          /\ messages' = messages
      ]_vars

\* an identifier typed in lower case was answered with its status card
C10_Witness ==
    /\ ev.handler = "handle_user_message"
    /\ ev.text = VIN_LOWER
    /\ Len(out) = 1
    /\ out[1].tag = "status_card"
    /\ out[1].args.vin = VIN_UPPER

\* the replies among o to the chat of uid: texts and photos
Replies(o, uid) ==
    {i \in 1..Len(o) : o[i].call \in {"reply_text", "reply_photo"} /\ o[i].chat_id = uid}

\* the relays to the operator among o
Relays(o) ==
    {i \in 1..Len(o) :
        o[i].call = "send_message" /\ o[i].chat_id = MANAGER_ID /\ o[i].tag = "relay"}

\* C11: a text message makes at most one reply to its sender on every path and
\* whichever of its I/O operations fail; every other call it makes is a relay to
\* the operator; a row is added to messages or a relay is made only for an
\* admitted text that is neither of the identifier shape nor a menu caption;
\* car_status is never written.
C11_AtMostOneReply ==
    [][Handled("handle_user_message") =>
          /\ Cardinality(Replies(out', ev'.uid)) <= 1
          /\ \A i \in 1..Len(out') : i \in Replies(out', ev'.uid) \/ i \in Relays(out')
          /\ (messages' # messages \/ Relays(out') # {}) =>
                 (~ev'.denied /\ ~IdShape(ev'.text) /\ ~IsCaption(ev'.text))
          /\ car_status' = car_status
      ]_vars

\* a free-form text whose append and whose relay both failed got its one reply
C11_Witness ==
    /\ ev.handler = "handle_user_message"
    /\ ev.write_failed
    /\ Len(out) = 2
    /\ ~out[1].ok
    /\ Cardinality(Replies(out, ev.uid)) = 1

\* C12: a /vinstatus of the operator with fewer than four whitespace-separated
\* parts makes exactly one call, the usage reply, and leaves car_status as it was.
C12_ShortVinstatusUsage ==
    [][(Handled("update_vin_status") /\ ev'.uid = MANAGER_ID
           /\ Len(SplitWs(ev'.text, 3)) < 4) =>
          /\ out' = <<ReplyText(MANAGER_ID, "vinstatus_usage", <<>>, TRUE)>>
          /\ car_status' = car_status
      ]_vars

\* the operator sent a /vinstatus with an identifier and a container only, while
\* car_status held a row
C12_Witness ==
    /\ ev.handler = "update_vin_status"
    /\ ev.uid = MANAGER_ID
    /\ Len(SplitWs(ev.text, 3)) = 3
    /\ car_status # <<>>
    /\ Len(out) = 1
    /\ out[1].tag = "vinstatus_usage"

\* a text that equals a menu caption of app.py
IsAppCaption(text) == \E i \in 1..Len(app_keyboard_texts) : app_keyboard_texts[i] = text

\* C13: in both routers an admitted text that equals a menu caption adds no row
\* to the archive and makes no call but, at most, one canned reply to its sender.
C13_MenuActionTerminal ==
    [][((Handled("handle_user_message") /\ ~ev'.denied /\ IsCaption(ev'.text))
           \/ (Handled("app.handle_user_message") /\ IsAppCaption(ev'.text))) =>
          /\ messages' = messages
          /\ sheet' = sheet
          /\ Len(out') <= 1
          /\ \A i \in 1..Len(out') :
                 /\ i \in Replies(out', ev'.uid)
                 /\ out'[i].tag \notin {"forwarded", "relay_failed", "relay"}
      ]_vars

\* main.py answered a caption with its canned reply while both archives held rows
C13_Witness ==
    /\ ev.handler = "handle_user_message"
    /\ ~ev.denied
    /\ ev.text = CAP_FAQ
    /\ Len(out) = 1
    /\ out[1].tag = "faq"
    /\ messages # <<>>
    /\ sheet # <<>>

\* C14: when the append of a free-form text to messages fails, messages is left
\* as it was, and the handler makes the same two calls as ever: the relay to
\* the operator and then the acknowledgment to the sender, with no error reply.
C14_ArchiveFailureIsSoft ==
    [][(Handled("handle_user_message") /\ ~ev'.denied /\ ~IdShape(ev'.text)
           /\ ~IsCaption(ev'.text) /\ ev'.write_failed) =>
          /\ messages' = messages
          /\ Len(out') = 2
          /\ out'[1].call = "send_message"
          /\ out'[1].chat_id = MANAGER_ID
          /\ out'[1].tag = "relay"
          /\ out'[1].args.text = ev'.text
          /\ out'[2] = ReplyText(ev'.uid, "forwarded", <<>>, TRUE)
      ]_vars

\* the append of a free-form text failed while messages held a row, and its
\* relay was accepted
C14_Witness ==
    /\ ev.handler = "handle_user_message"
    /\ ev.write_failed
    /\ messages # <<>>
    /\ Len(out) = 2
    /\ out[1].ok
    /\ out[2].tag = "forwarded"

\* the sends among o
Sends(o) == {i \in 1..Len(o) : o[i].call = "send_message"}

\* the replies to uid among o that the transport accepted
Received(o, uid) == {i \in Replies(o, uid) : o[i].ok}

\* /reply from the operator with at least two arguments
ReplyWithArgs ==
    /\ Handled("reply_command")
    /\ ev'.uid = MANAGER_ID
    /\ Len(CommandArgs(ev'.text)) >= 2

IsUpperCase(s) == \A i \in 1..Len(s) : CharUpper(s[i]) = <<s[i]>>

\* the rows of car_status whose key is a case variant of text
CaseVariantRows(rows, text) == {i \in 1..Len(rows) : Lower(rows[i].vin) = Lower(text)}

\* C16: every key of car_status is upper-case and no two rows have keys that
\* are case variants of each other; an admitted text of the identifier shape,
\* its read succeeding, is answered with the status card of the row whose key
\* is a case variant of it, when there is one.
C16_KeysUpperCased ==
    [][/\ \A i \in 1..Len(car_status') :
              /\ IsUpperCase(car_status'[i].vin)
              /\ CaseVariantRows(car_status', car_status'[i].vin) = {i}
       /\ (Handled("handle_user_message") /\ ~ev'.denied /\ IdShape(ev'.text)
              /\ ~ev'.read_failed) =>
             \A i \in CaseVariantRows(car_status, ev'.text) :
                 /\ Len(out') = 1
                 /\ out'[1].tag = "status_card"
                 /\ out'[1].args.vin = car_status[i].vin
                 /\ out'[1].args.container = car_status[i].container_number
      ]_vars

\* an identifier stored from a lower-case /vinstatus was found by its
\* upper-case spelling
C16_Witness ==
    /\ ev.handler = "handle_user_message"
    /\ ev.text = VIN_UPPER
    /\ Len(out) = 1
    /\ out[1].tag = "status_card"
    /\ out[1].args.container = C7
    /\ Len(car_status) = 1

\* the handlers of commands
CommandHandlers == {"start", "update_vin_status", "get_last_messages", "reply_command"}

\* the timestamps of uid that lie within TIME_LIMIT of now
LiveStamps(uid) == SelectSeq(user_message_count[uid], LAMBDA x : now - x < TIME_LIMIT)

\* C17 as claimed: a command passes the rate limiter like any other update: from
\* an identity whose window is full it is answered with the rate-limit reply
\* alone and writes nothing, and otherwise its time is recorded in the window
\* of its sender.
C17_CommandsPassRateLimiter ==
    [][(now' = now /\ ev'.handler \in CommandHandlers) =>
          IF Len(LiveStamps(ev'.uid)) >= MESSAGE_LIMIT
          THEN /\ out' = <<ReplyText(ev'.uid, "rate_limited", <<>>, TRUE)>>
               /\ car_status' = car_status
          ELSE user_message_count'[ev'.uid] = Append(LiveStamps(ev'.uid), now)
      ]_vars

\* C18: with handler tasks interleaved at their awaits, the events of one
\* identity that pass is_spam number at most MESSAGE_LIMIT in any span shorter
\* than TIME_LIMIT (the admission MESSAGE_LIMIT places after another comes at
\* least TIME_LIMIT later), and a step changes the timestamp list of no
\* identity but the sender of the update it handles.
C18_WindowHoldsUnderInterleaving ==
    [][/\ \A u \in Identities : \A i \in 1..Len(admitted'[u]) :
              i + MESSAGE_LIMIT <= Len(admitted'[u]) =>
                  admitted'[u][i + MESSAGE_LIMIT] - admitted'[u][i] >= TIME_LIMIT
       /\ \A u \in Identities :
              u # ev'.uid => user_message_count'[u] = user_message_count[u]
      ]_vars

\* an update was denied, after time had passed, while tasks of two identities
\* were suspended
C18_Witness ==
    /\ ev.handler = "handle_user_message"
    /\ ev.denied
    /\ now > 0
    /\ Len(sched.tasks) = MaxTasks
    /\ sched.tasks[1].ev.uid # sched.tasks[2].ev.uid
    /\ Len(admitted[ev.uid]) >= MESSAGE_LIMIT

C20_DeniedNotRecorded ==
    [][(Handled("handle_user_message") /\ ev'.denied) =>
          /\ user_message_count'[ev'.uid] = LiveStamps(ev'.uid)
          /\ Len(user_message_count'[ev'.uid]) >= MESSAGE_LIMIT
          /\ \A u \in Identities :
                 u # ev'.uid => user_message_count'[u] = user_message_count[u]
      ]_vars

\* a text was denied at a time later than every timestamp of its sender's window
C20_Witness ==
    /\ ev.handler = "handle_user_message"
    /\ ev.denied
    /\ Len(user_message_count[ev.uid]) = MESSAGE_LIMIT
    /\ user_message_count[ev.uid][MESSAGE_LIMIT] < now

\* C21 as claimed: in app.py a free-form text from a customer whose relay to
\* the operator was not accepted is still answered with the acknowledgment.
C21_AppAcknowledgesDespiteRelayFailure ==
    [][(Handled("app.handle_user_message") /\ ev'.uid # MANAGER_ID
           /\ ~IsAppCaption(ev'.text)
           /\ \E i \in Relays(out') : ~out'[i].ok) =>
          \E i \in Received(out', ev'.uid) : out'[i].tag = "forwarded"
      ]_vars

\* C22 as claimed: every row of car_status has an identifier of the identifier
\* shape, 17 alphanumeric characters.
C22_StoredIdentifiersHaveShape ==
    \A i \in 1..Len(car_status) : IdShape(car_status[i].vin)

====
